---- MODULE Spec2Model ----
(***************************************************************************)
(* A model of ns_api.py (a Python 2 module): the timestamp decoding, the   *)
(* record classes Station, Departure, TripRemark, TripSubpart and Trip,    *)
(* and the NSAPI.parse_* entry points.                                     *)
(*                                                                         *)
(* Python values are tagged records: None, Str, Bool, List, Dict, and one  *)
(* record kind per class.  A call either returns a value, Return(v), or    *)
(* raises, Raise(e), e being the exception's class name.  Strings that the *)
(* code slices or converts (timestamps, formats) are sequences of          *)
(* one-character strings; strings it only copies are opaque.               *)
(*                                                                         *)
(* CHOOSE r \in {F(x) : x \in {e}} : TRUE is F(e), written so where e is   *)
(* the outcome of a call that F reads more than once.                      *)
(***************************************************************************)
EXTENDS Integers, Sequences, FiniteSets, TLC

VARIABLES
    pc,              \* the last operation performed ("start" before any)
    value,           \* load_datetime's argument value
    dt_format,       \* load_datetime's argument dt_format
    departure_dict,  \* Departure.__init__'s argument
    trip_dict,       \* Trip.__init__'s argument
    stat_dict,       \* Station.__init__'s argument
    xml,             \* the document handed to a parse_* entry point
    via,             \* how the caller reaches the entry point
    self,            \* the object constructed, None when there is none
    result           \* the outcome of the last operation

vars == <<pc, value, dt_format, departure_dict, trip_dict, stat_dict, xml, via,
          self, result>>

(***************************************************************************)
(* Bounds of the model.                                                    *)
(***************************************************************************)
\* the digits of a UTC-offset suffix are drawn from 0..MaxOffsetDigit
MaxOffsetDigit == 5
\* a repeated element (ReisDeel, Melding, Synoniem) occurs at most MaxItems times
MaxItems == 2
\* a document holds at most MaxRecords record elements
MaxRecords == 2

(***************************************************************************)
(* Python values and outcomes.                                             *)
(***************************************************************************)
None == [kind |-> "none"]
Str(s) == [kind |-> "str", s |-> s]
Bool(b) == [kind |-> "bool", b |-> b]
List(items) == [kind |-> "list", items |-> items]
Dict(d) == [kind |-> "dict", d |-> d]

Return(v) == [exc |-> "none", val |-> v]
Raise(e) == [exc |-> e]
NoResult == [exc |-> "no call"]
Returned(r) == r.exc = "none"

\* d[k] of Python: a dict's value or KeyError; a str or None is not
\* subscriptable by a str key (TypeError); a list neither.
GetItem(v, k) ==
    IF v.kind = "dict"
    THEN IF k \in DOMAIN v.d THEN Return(v.d[k]) ELSE Raise("KeyError")
    ELSE Raise("TypeError")

\* the keys of a dict, in its order, each a str
RECURSIVE KeysSeq(_)
KeysSeq(ks) ==
    IF ks = {} THEN <<>>
    ELSE LET k == CHOOSE x \in ks : TRUE IN <<Str(k)>> \o KeysSeq(ks \ {k})
KeysOf(d) == KeysSeq(DOMAIN d)

\* the values a for loop binds: a list's items, a dict's keys, a str's
\* characters (xmltodict yields no empty str, and an opaque str stands for
\* its first character); None is not iterable.
Iterate(v) ==
    CASE v.kind = "list" -> Return(v.items)
      [] v.kind = "dict" -> Return(KeysOf(v.d))
      [] v.kind = "str" -> Return(<<Str("<char>")>>)
      [] OTHER -> Raise("TypeError")

(***************************************************************************)
(* Character strings.                                                      *)
(***************************************************************************)
DigitChars == <<"0", "1", "2", "3", "4", "5", "6", "7", "8", "9">>

IsDigit(c) == \E i \in 1..10 : DigitChars[i] = c
DigitVal(c) == (CHOOSE i \in 1..10 : DigitChars[i] = c) - 1

\* s[-n:]
LastChars(s, n) == IF Len(s) <= n THEN s ELSE SubSeq(s, Len(s) - n + 1, Len(s))
\* s[:-n]
DropLast(s, n) == IF Len(s) <= n THEN <<>> ELSE SubSeq(s, 1, Len(s) - n)
\* s[:n]
FirstChars(s, n) == IF Len(s) <= n THEN s ELSE SubSeq(s, 1, n)
\* s[n:]
DropFirst(s, n) == IF Len(s) <= n THEN <<>> ELSE SubSeq(s, n + 1, Len(s))

RECURSIVE DigitsVal(_)
DigitsVal(s) ==
    IF s = <<>> THEN 0 ELSE 10 * DigitsVal(DropLast(s, 1)) + DigitVal(s[Len(s)])

\* int(s) of Python: an optional sign, then one or more decimal digits.
PyInt(s) ==
    LET signed == s # <<>> /\ s[1] \in {"+", "-"}
        digits == IF signed THEN DropFirst(s, 1) ELSE s
    IN  IF digits = <<>> \/ \E i \in 1..Len(digits) : ~IsDigit(digits[i])
        THEN Raise("ValueError")
        ELSE Return(IF signed /\ s[1] = "-" THEN 0 - DigitsVal(digits)
                    ELSE DigitsVal(digits))

(***************************************************************************)
(* datetime.timedelta and datetime.strptime.                               *)
(***************************************************************************)
SecondsPerDay == 86400

\* a timedelta of t seconds, normalized as timedelta does: days and the
\* seconds of the day, 0 <= seconds < 86400
Seconds(t) ==
    [kind |-> "timedelta", days |-> t \div SecondsPerDay, seconds |-> t % SecondsPerDay]
total_seconds(td) == td.days * SecondsPerDay + td.seconds

timedelta(hours, minutes) == Seconds(3600 * hours + 60 * minutes)

IsLeap(y) == y % 4 = 0 /\ (y % 100 # 0 \/ y % 400 = 0)
DaysInMonth(y, m) ==
    IF m = 2 THEN (IF IsLeap(y) THEN 29 ELSE 28)
    ELSE IF m \in {4, 6, 9, 11} THEN 30 ELSE 31

FieldOf(directive) ==
    CASE directive = "Y" -> "year"
      [] directive = "m" -> "month"
      [] directive = "d" -> "day"
      [] directive = "H" -> "hour"
      [] directive = "M" -> "minute"
      [] directive = "S" -> "second"

FieldRange(directive) ==
    CASE directive = "Y" -> 1..9999
      [] directive = "m" -> 1..12
      [] directive = "d" -> 1..31
      [] directive = "H" -> 0..23
      [] directive = "M" -> 0..59
      [] directive = "S" -> 0..61

\* the fields strptime starts from
StrptimeDefaults ==
    [year |-> 1900, month |-> 1, day |-> 1, hour |-> 0, minute |-> 0, second |-> 0]

\* _strptime's match of the value against the format, character by
\* character: a directive of the format takes a fixed-width run of digits
\* (four for %Y, two for the others) in the directive's range, any other
\* character of the format matches itself; %z is a bad directive in
\* Python 2, and data left over when the format ends is an error.
RECURSIVE StrptimeMatch(_, _, _)
StrptimeMatch(v, f, acc) ==
    IF f = <<>>
    THEN IF v = <<>> THEN Return(acc) ELSE Raise("ValueError")
    ELSE IF f[1] = "%"
    THEN IF Len(f) < 2 \/ f[2] \notin {"Y", "m", "d", "H", "M", "S"}
         THEN Raise("ValueError")
         ELSE LET w == IF f[2] = "Y" THEN 4 ELSE 2
                  run == FirstChars(v, w)
              IN  IF Len(run) < w \/ \E i \in 1..w : ~IsDigit(run[i])
                  THEN Raise("ValueError")
                  ELSE IF DigitsVal(run) \notin FieldRange(f[2])
                  THEN Raise("ValueError")
                  ELSE StrptimeMatch(DropFirst(v, w), DropFirst(f, 2),
                                     [acc EXCEPT ![FieldOf(f[2])] = DigitsVal(run)])
    ELSE IF v # <<>> /\ v[1] = f[1]
         THEN StrptimeMatch(DropFirst(v, 1), DropFirst(f, 1), acc)
         ELSE Raise("ValueError")

\* datetime.strptime(value, format): a naive datetime, or ValueError.
strptime(v, f) ==
    LET m == StrptimeMatch(v, f, StrptimeDefaults)
    IN  IF ~Returned(m) THEN m
        ELSE IF m.val.day > DaysInMonth(m.val.year, m.val.month) \/ m.val.second > 59
        THEN Raise("ValueError")
        ELSE Return([kind |-> "datetime", year |-> m.val.year, month |-> m.val.month,
                     day |-> m.val.day, hour |-> m.val.hour, minute |-> m.val.minute,
                     second |-> m.val.second, tzinfo |-> None])

(***************************************************************************)
(* OffsetTime and load_datetime.                                           *)
(***************************************************************************)
\* a variant of OffsetMinutes that does not carry the sign over to the minutes
OffsetMinutesUnsigned(offset) == PyInt(DropFirst(offset, 3))

\* minutes = int(offset[0] + offset[3:])
OffsetMinutes(offset) == PyInt(FirstChars(offset, 1) \o DropFirst(offset, 3))

\* hours = int(offset[:3])
OffsetHours(offset) == PyInt(FirstChars(offset, 3))

\* OffsetTime(offset): the tzinfo object, or the ValueError of int()
OffsetTime(offset) ==
    LET hours == OffsetHours(offset)
        minutes == OffsetMinutes(offset)
    IN  IF ~Returned(hours) THEN hours
        ELSE IF ~Returned(minutes) THEN minutes
        ELSE Return([kind |-> "OffsetTime",
                     utcoffset |-> timedelta(hours.val, minutes.val)])

\* StaticTzInfo.localize(dt): dt.replace(tzinfo=self)
localize(tz, dt) == [dt EXCEPT !.tzinfo = tz]

load_datetime(v, f) ==
    IF LastChars(f, 2) = <<"%", "z">>
    THEN LET tz == OffsetTime(LastChars(v, 5))
             dt == strptime(DropLast(v, 5), DropLast(f, 2))
         IN  IF ~Returned(tz) THEN tz
             ELSE IF ~Returned(dt) THEN dt
             ELSE Return(localize(tz.val, dt.val))
    ELSE strptime(v, f)

(***************************************************************************)
(* The timestamps and formats the model draws from.                        *)
(***************************************************************************)
dt_format_z ==
    <<"%", "Y", "-", "%", "m", "-", "%", "d", "T", "%", "H", ":", "%", "M", ":",
      "%", "S", "%", "z">>
dt_format_naive == DropLast(dt_format_z, 2)

\* 2024-03-01T10:15:00
Base1 ==
    <<"2", "0", "2", "4", "-", "0", "3", "-", "0", "1", "T", "1", "0", ":", "1", "5",
      ":", "0", "0">>
\* 2015-12-31T23:59:59
Base2 ==
    <<"2", "0", "1", "5", "-", "1", "2", "-", "3", "1", "T", "2", "3", ":", "5", "9",
      ":", "5", "9">>
\* 2023-02-29T10:15:00, no such day
BadDay ==
    <<"2", "0", "2", "3", "-", "0", "2", "-", "2", "9", "T", "1", "0", ":", "1", "5",
      ":", "0", "0">>
\* 2024-03-01 10:15:00, a blank for the T
BadSep ==
    <<"2", "0", "2", "4", "-", "0", "3", "-", "0", "1", " ", "1", "0", ":", "1", "5",
      ":", "0", "0">>

Bases == {Base1, Base2, BadDay, BadSep}

\* what the well-formed date-time parts denote
BaseFields(b) ==
    CASE b = Base1 -> [year |-> 2024, month |-> 3, day |-> 1, hour |-> 10,
                       minute |-> 15, second |-> 0]
      [] b = Base2 -> [year |-> 2015, month |-> 12, day |-> 31, hour |-> 23,
                       minute |-> 59, second |-> 59]
WellFormedBases == {Base1, Base2}

OffsetDigits == {DigitChars[i + 1] : i \in 0..MaxOffsetDigit}
Signs == {"+", "-"}
Offsets ==
    {<<s, h1, h2, m1, m2>> : s \in Signs \cup {"Z"}, h1 \in {"0", "1"},
                             h2 \in OffsetDigits, m1 \in OffsetDigits, m2 \in {"0", "5"}}

Values == {b \o o : b \in Bases, o \in Offsets} \cup Bases \cup {<<>>}

(***************************************************************************)
(* Temporal decoding: one call of load_datetime.                           *)
(***************************************************************************)
TimeInit ==
    /\ pc = "start"
    /\ value \in Values
    /\ dt_format \in {dt_format_z, dt_format_naive}
    /\ departure_dict = None /\ trip_dict = None /\ stat_dict = None
    /\ xml = None /\ via = "none" /\ self = None
    /\ result = NoResult

LoadDatetime ==
    /\ pc = "start"
    /\ pc' = "load_datetime"
    /\ result' = load_datetime(value, dt_format)
    /\ UNCHANGED <<value, dt_format, departure_dict, trip_dict, stat_dict, xml, via, self>>

TimeNext == LoadDatetime

TimeSpec == TimeInit /\ [][TimeNext]_vars

\* the value ends in a suffix sHHMM, s a sign and H, M digits
HasOffsetSuffix(v) ==
    /\ Len(v) >= 5
    /\ LET o == LastChars(v, 5)
       IN  o[1] \in Signs /\ \A i \in 2..5 : IsDigit(o[i])

\* s*(60*HH + MM), from the digits of the suffix
SuffixMinutes(v) ==
    LET o == LastChars(v, 5)
        HH == 10 * DigitVal(o[2]) + DigitVal(o[3])
        MM == 10 * DigitVal(o[4]) + DigitVal(o[5])
    IN  IF o[1] = "-" THEN 0 - (60 * HH + MM) ELSE 60 * HH + MM

\* C7: for a format ending in %z and a value ending in sHHMM whose
\* date-time part is well formed, load_datetime returns a datetime whose
\* tzinfo has a UTC offset of exactly s*(60*HH + MM) minutes, and whose
\* date and time are those of the value without its last five characters.
C7_OffsetIsSignedHoursAndMinutes ==
    (/\ pc = "load_datetime"
     /\ dt_format = dt_format_z
     /\ HasOffsetSuffix(value)
     /\ DropLast(value, 5) \in WellFormedBases)
    => /\ Returned(result)
       /\ result.val.kind = "datetime"
       /\ result.val.tzinfo.kind = "OffsetTime"
       /\ total_seconds(result.val.tzinfo.utcoffset) = 60 * SuffixMinutes(value)
       /\ LET b == BaseFields(DropLast(value, 5))
          IN  /\ result.val.year = b.year /\ result.val.month = b.month
              /\ result.val.day = b.day /\ result.val.hour = b.hour
              /\ result.val.minute = b.minute /\ result.val.second = b.second

\* a negative offset with a non-zero minute part and zero hours has been decoded
C7_Witness ==
    /\ pc = "load_datetime"
    /\ dt_format = dt_format_z
    /\ value = Base1 \o <<"-", "0", "0", "3", "0">>
    /\ Returned(result)
    /\ result.val.tzinfo.utcoffset = [kind |-> "timedelta", days |-> 0 - 1, seconds |-> 84600]

(***************************************************************************)
(* Frames and objects.  A frame is the exception raised so far ("none"     *)
(* when none) and the attributes assigned so far.                          *)
(***************************************************************************)
NoAttrs == [a \in {} |-> None]
Frame0 == [exc |-> "none", attrs |-> NoAttrs]

\* the frame with which an except clause starts
Handle(st) == [st EXCEPT !.exc = "none"]

\* the constructed object, or the exception
Construct(cls, st) ==
    CHOOSE r \in {IF f.exc = "none" THEN Return([kind |-> cls, attrs |-> f.attrs])
                  ELSE Raise(f.exc) : f \in {st}} : TRUE

HasAttr(obj, attr) == attr \in DOMAIN obj.attrs

\* a dict from <<key, value>> pairs, a value of Absent leaving the key out
Absent == [kind |-> "absent"]
FromPairs(ps) ==
    LET present == {i \in 1..Len(ps) : ps[i][2] # Absent}
    IN  Dict([k \in {ps[i][1] : i \in present} |->
                ps[CHOOSE i \in present : ps[i][1] = k][2]])
Has(d, k) == d.kind = "dict" /\ k \in DOMAIN d.d

\* d[k1][k2]
GetItem2(d, k1, k2) ==
    LET g == GetItem(d, k1) IN IF Returned(g) THEN GetItem(g.val, k2) ELSE g

\* the class names of the exceptions of the model: what a bare except catches
Exceptions == {"KeyError", "TypeError", "ValueError", "AttributeError", "ExpatError"}

(***************************************************************************)
(* datetime: comparison, subtraction, isoformat.                           *)
(***************************************************************************)
DaysBeforeYear(y) == (y - 1) * 365 + (y - 1) \div 4 - (y - 1) \div 100 + (y - 1) \div 400

RECURSIVE DaysBeforeMonth(_, _)
DaysBeforeMonth(y, m) ==
    IF m = 1 THEN 0 ELSE DaysBeforeMonth(y, m - 1) + DaysInMonth(y, m - 1)

\* the UTC instant of an aware datetime: the days from 0001-01-01 and the
\* seconds of the day
Instant(dt) ==
    LET ordinal == DaysBeforeYear(dt.year) + DaysBeforeMonth(dt.year, dt.month) + dt.day - 1
        local == (dt.hour * 60 + dt.minute) * 60 + dt.second
                 - total_seconds(dt.tzinfo.utcoffset)
    IN  [days |-> ordinal + local \div SecondsPerDay, seconds |-> local % SecondsPerDay]

Later(i, j) == i.days > j.days \/ (i.days = j.days /\ i.seconds > j.seconds)

\* dt.utcoffset(): datetime refuses an offset of a day or more
utcoffset(dt) ==
    IF total_seconds(dt.tzinfo.utcoffset) >= SecondsPerDay
       \/ total_seconds(dt.tzinfo.utcoffset) <= 0 - SecondsPerDay
    THEN Raise("ValueError")
    ELSE Return(dt.tzinfo.utcoffset)

\* a > b of Python 2: two None compare equal, a datetime refuses to be
\* ordered against None, two aware datetimes compare as instants
GreaterThan(a, b) ==
    IF a.kind = "none" /\ b.kind = "none" THEN Return(FALSE)
    ELSE IF a.kind # "datetime" \/ b.kind # "datetime" THEN Raise("TypeError")
    ELSE IF ~Returned(utcoffset(a)) THEN utcoffset(a)
    ELSE IF ~Returned(utcoffset(b)) THEN utcoffset(b)
    ELSE Return(Later(Instant(a), Instant(b)))

\* a - b of two aware datetimes
Minus(a, b) ==
    LET i == Instant(a)
        j == Instant(b)
        t == i.seconds - j.seconds
    IN  [kind |-> "timedelta", days |-> i.days - j.days + t \div SecondsPerDay,
         seconds |-> t % SecondsPerDay]

Pad2(n) == <<DigitChars[((n \div 10) % 10) + 1], DigitChars[(n % 10) + 1]>>
Pad4(n) == Pad2(n \div 100) \o Pad2(n % 100)
Text(chars) == [kind |-> "str", chars |-> chars]

\* v.isoformat(): YYYY-MM-DDTHH:MM:SS+HH:MM of a datetime; None has no
\* such attribute
isoformat(v) ==
    IF v.kind # "datetime" THEN Raise("AttributeError")
    ELSE IF ~Returned(utcoffset(v)) THEN utcoffset(v)
    ELSE LET off == total_seconds(v.tzinfo.utcoffset)
             mins == (IF off < 0 THEN 0 - off ELSE off) \div 60
         IN  Return(Text(Pad4(v.year) \o <<"-">> \o Pad2(v.month) \o <<"-">> \o Pad2(v.day)
                         \o <<"T">> \o Pad2(v.hour) \o <<":">> \o Pad2(v.minute)
                         \o <<":">> \o Pad2(v.second)
                         \o <<IF off < 0 THEN "-" ELSE "+">>
                         \o Pad2(mins \div 60) \o <<":">> \o Pad2(mins % 60)))

(***************************************************************************)
(* BaseObject.to_json.                                                     *)
(***************************************************************************)
RECURSIVE JsonSerializable(_)
JsonSerializable(v) ==
    CASE v.kind \in {"none", "str", "bool"} -> TRUE
      [] v.kind = "list" -> \A i \in 1..Len(v.items) : JsonSerializable(v.items[i])
      [] v.kind = "dict" -> \A k \in DOMAIN v.d : JsonSerializable(v.d[k])
      [] OTHER -> FALSE

\* json.dumps(state): a str holding the encoding of the attributes, or the
\* TypeError of a value json cannot encode
json_dumps(state) ==
    IF \A a \in DOMAIN state : JsonSerializable(state[a])
    THEN Return([kind |-> "str", json |-> state])
    ELSE Raise("TypeError")

BaseObject_to_json(obj) == json_dumps(obj.attrs)

(***************************************************************************)
(* The statements of a method body, as data, and their execution.  An      *)
(* expression is evaluated against the frame f and the argument d of the   *)
(* method; a statement takes a frame to the next one; once an exception is *)
(* raised the statements that follow are skipped, up to the except clause  *)
(* of an enclosing try that catches it.                                    *)
(***************************************************************************)
\* expressions
Const(v) == [e |-> "const", v |-> v]                       \* a literal
Item(key) == [e |-> "item", key |-> key]                   \* d[key]
Item2(k1, k2) == [e |-> "item2", k1 |-> k1, k2 |-> k2]     \* d[k1][k2]
ItemEq(key, v) == [e |-> "item_eq", key |-> key, v |-> v]  \* d[key] == v
ItemNe(key, v) == [e |-> "item_ne", key |-> key, v |-> v]  \* d[key] != v
SelfNe(attr, v) == [e |-> "self_ne", attr |-> attr, v |-> v]  \* self.attr != v
NamesLiteral == [e |-> "names"]            \* the dict literal of Station.names
SynonymsLoop == [e |-> "synonyms"]         \* the names Station's loop appends
LoadItem(key) == [e |-> "load_datetime", key |-> key]  \* load_datetime(d[key], dt_format)
Loop(cls, key) == [e |-> "loop", cls |-> cls, key |-> key]  \* the cls of each item of d[key]
Isoformat(attr) == [e |-> "isoformat", attr |-> attr]   \* result[attr].isoformat()
ToJsonEach(attr) == [e |-> "to_json_each", attr |-> attr]  \* to_json() of each of result[attr]

\* statements
SetAttr(attr, e) == [op |-> "set", attr |-> attr, e |-> e]  \* self.attr = e
Local(e) == [op |-> "local", e |-> e]                        \* name = e
Try(body, excs, handler) ==
    [op |-> "try", body |-> body, excs |-> excs, handler |-> handler]

RECURSIVE New(_, _)
RECURSIVE Exec(_, _, _)

\* [cls(x) for x in items], or the first exception
RECURSIVE MapNew(_, _)
MapNew(cls, items) ==
    IF Len(items) = 0 THEN Return(<<>>)
    ELSE CHOOSE r \in {IF ~Returned(head) THEN head
                       ELSE IF ~Returned(rest) THEN rest
                       ELSE Return(<<head.val>> \o rest.val) :
                       head \in {New(cls, items[1])},
                       rest \in {MapNew(cls, Tail(items))}} : TRUE

\* raw = [raw] if isinstance(raw, collections.OrderedDict); then the loop
\* that constructs a cls from each item of raw
WrapAndMap(cls, raw) ==
    LET items == Iterate(IF raw.kind = "dict" THEN List(<<raw>>) ELSE raw)
    IN  IF ~Returned(items) THEN items
        ELSE LET objs == MapNew(cls, items.val)
             IN  IF Returned(objs) THEN Return(List(objs.val)) ELSE objs

\* [x.to_json() for x in items], or the first exception
RECURSIVE MapToJson(_)
MapToJson(items) ==
    IF Len(items) = 0 THEN Return(<<>>)
    ELSE CHOOSE r \in {IF ~Returned(head) THEN head
                       ELSE IF ~Returned(rest) THEN rest
                       ELSE Return(<<head.val>> \o rest.val) :
                       head \in {BaseObject_to_json(items[1])},
                       rest \in {MapToJson(Tail(items))}} : TRUE

\* the dict literal of self.names: its three values are evaluated in order
Station_names(d) ==
    LET short == GetItem2(d, "Namen", "Kort")
        middle == GetItem2(d, "Namen", "Middel")
        long == GetItem2(d, "Namen", "Lang")
    IN  IF ~Returned(short) THEN short
        ELSE IF ~Returned(middle) THEN middle
        ELSE IF ~Returned(long) THEN long
        ELSE Return(Dict([k \in {"short", "middle", "long"} |->
                CASE k = "short" -> short.val
                  [] k = "middle" -> middle.val
                  [] k = "long" -> long.val]))

\* lines 97-101: raw_synonyms, wrapped in a list when it is a str, and the
\* loop that appends each of its items
Station_synonyms(d) ==
    LET raw == GetItem2(d, "Synoniemen", "Synoniem")
        raw_synonyms == IF Returned(raw) /\ raw.val.kind = "str"
                        THEN Return(List(<<raw.val>>)) ELSE raw
        items == IF Returned(raw_synonyms) THEN Iterate(raw_synonyms.val) ELSE raw_synonyms
    IN  IF Returned(items) THEN Return(List(items.val)) ELSE items

\* load_datetime(d[key], dt_format): a value that is no str cannot be sliced
LoadDatetimeItem(d, key) ==
    LET g == GetItem(d, key)
    IN  IF ~Returned(g) THEN g
        ELSE IF g.val.kind = "str" /\ "chars" \in DOMAIN g.val
        THEN load_datetime(g.val.chars, dt_format_z)
        ELSE Raise("TypeError")

\* the outcome of an expression
Eval(e, f, d) ==
    CASE e.e = "const" -> Return(e.v)
      [] e.e = "item" -> GetItem(d, e.key)
      [] e.e = "item2" -> GetItem2(d, e.k1, e.k2)
      [] e.e = "item_eq" ->
            LET g == GetItem(d, e.key)
            IN  IF Returned(g) THEN Return(Bool(g.val = e.v)) ELSE g
      [] e.e = "item_ne" ->
            LET g == GetItem(d, e.key)
            IN  IF Returned(g) THEN Return(Bool(g.val # e.v)) ELSE g
      [] e.e = "self_ne" -> Return(Bool(f.attrs[e.attr] # e.v))
      [] e.e = "names" -> Station_names(d)
      [] e.e = "synonyms" -> Station_synonyms(d)
      [] e.e = "load_datetime" -> LoadDatetimeItem(d, e.key)
      [] e.e = "loop" ->
            LET raw == GetItem(d, e.key)
            IN  IF Returned(raw) THEN WrapAndMap(e.cls, raw.val) ELSE raw
      [] e.e = "isoformat" -> isoformat(f.attrs[e.attr])
      [] e.e = "to_json_each" ->
            LET js == MapToJson(f.attrs[e.attr].items)
            IN  IF Returned(js) THEN Return(List(js.val)) ELSE js

\* the frame after one statement
Step(s, f, d) ==
    CASE s.op = "set" ->
            CHOOSE r \in {IF Returned(o) THEN [f EXCEPT !.attrs = (s.attr :> o.val) @@ @]
                          ELSE [f EXCEPT !.exc = o.exc] : o \in {Eval(s.e, f, d)}} : TRUE
      [] s.op = "local" ->
            CHOOSE r \in {IF Returned(o) THEN f
                          ELSE [f EXCEPT !.exc = o.exc] : o \in {Eval(s.e, f, d)}} : TRUE
      [] s.op = "try" ->
            CHOOSE r \in {IF t.exc \in s.excs THEN Exec(s.handler, Handle(t), d)
                          ELSE t : t \in {Exec(s.body, f, d)}} : TRUE

\* the frame after a sequence of statements
Exec(stmts, f, d) ==
    IF Len(stmts) = 0 \/ f.exc # "none" THEN f
    ELSE CHOOSE r \in {Exec(Tail(stmts), g, d) : g \in {Step(stmts[1], f, d)}} : TRUE

(***************************************************************************)
(* Station.                                                                *)
(***************************************************************************)
\* the exceptions the except clause of Station.__init__ catches
Station_caught == {"TypeError"}

Station_init ==
    << SetAttr("code", Item("Code")),
       SetAttr("uic_code", Item("UICCode")),
       SetAttr("stationtype", Item("Type")),
       SetAttr("names", NamesLiteral),
       SetAttr("country", Item("Land")),
       SetAttr("lat", Item("Lat")),
       SetAttr("lon", Item("Lon")),
       SetAttr("synonyms", Const(List(<<>>))),
       Try(<< SetAttr("synonyms", SynonymsLoop) >>,
           Station_caught,
           << SetAttr("synonyms", Const(List(<<>>))) >>) >>

(***************************************************************************)
(* Departure.                                                              *)
(***************************************************************************)
Departure_init ==
    << SetAttr("trip_number", Item("RitNummer")),
       SetAttr("departure_time", Item("VertrekTijd")),
       Try(<< SetAttr("has_delay", Const(Bool(TRUE))),
              SetAttr("departure_delay", Item("VertrekVertraging")),
              SetAttr("departure_delay_text", Item("VertrekVertragingTekst")) >>,
           {"KeyError"},
           << SetAttr("has_delay", Const(Bool(FALSE))) >>),
       SetAttr("departure_platform", Item("VertrekSpoor")),
       SetAttr("departure_platform_changed", Item2("VertrekSpoor", "@wijziging")),
       SetAttr("destination", Item("EindBestemming")),
       Try(<< SetAttr("route_text", Item("RouteTekst")) >>,
           {"KeyError"},
           << SetAttr("route_text", Const(None)) >>),
       \* self.train_type = departure_dict = ['TreinSoort'], and the like:
       \* chained assignments of a list literal, which raise nothing
       SetAttr("train_type", Const(List(<<Str("TreinSoort")>>))),
       SetAttr("carrier", Const(List(<<Str("Vervoerder")>>))),
       Try(<< SetAttr("journey_tip", Const(List(<<Str("ReisTip")>>))) >>,
           {"KeyError"},
           << SetAttr("journey_tip", Const(None)) >>),
       Try(<< SetAttr("remarks", Const(List(<<Str("Opmerkingen")>>))) >>,
           {"KeyError"},
           << SetAttr("remarks", Const(List(<<>>))) >>) >>

\* the property Departure.delay
Departure_delay(obj) ==
    IF obj.attrs["has_delay"] = Bool(TRUE)
    THEN IF HasAttr(obj, "departure_delay") THEN Return(obj.attrs["departure_delay"])
         ELSE Raise("AttributeError")
    ELSE Return(None)

(***************************************************************************)
(* TripRemark, TripStop, TripSubpart.                                      *)
(***************************************************************************)
TripRemark_init ==
    << SetAttr("id", Item("Id")),
       SetAttr("is_grave", ItemNe("Ernstig", Str("false"))),
       SetAttr("text", Item("Text")) >>

TripStop_init ==
    << SetAttr("name", Item("Naam")),
       SetAttr("time", Item("Tijd")),
       SetAttr("platform", Item("Spoor")) >>

TripSubpart_init ==
    << SetAttr("trip_type", Item("@reisSoort")),
       SetAttr("transporter", Item("Vervoerder")),
       SetAttr("transport_type", Item("VervoerType")),
       SetAttr("journey_id", Item("RitNummer")),
       SetAttr("status", Item("Status")),
       SetAttr("going", SelfNe("status", Str("GEANNULEERD"))) >>

(***************************************************************************)
(* Trip.                                                                   *)
(***************************************************************************)
\* try: self.attr = load_datetime(trip_dict[key], dt_format), except: None.
\* The bare except catches the KeyError of a missing key, the TypeError of a
\* value that is no str and the ValueError of a malformed one alike.
Trip_load(attr, key) ==
    Try(<< SetAttr(attr, LoadItem(key)) >>, Exceptions, << SetAttr(attr, Const(None)) >>)

\* lines 203-209: travel_time_planned and going
Trip_travel_time_planned ==
    Try(<< SetAttr("travel_time_planned", Item("GeplandeReisTijd")),
           SetAttr("going", Const(Bool(TRUE))) >>,
        {"KeyError"},
        << SetAttr("travel_time_planned", Const(None)),
           SetAttr("going", Const(Bool(FALSE))) >>)

\* lines 246-255: trip_remarks
Trip_trip_remarks ==
    Try(<< Local(Item("Melding")),
           SetAttr("trip_remarks", Const(List(<<>>))),
           SetAttr("trip_remarks", Loop("TripRemark", "Melding")) >>,
        {"KeyError"},
        << SetAttr("trip_remarks", Const(List(<<>>))) >>)

Trip_init ==
    << SetAttr("status", Item("Status")),
       SetAttr("nr_transfers", Item("AantalOverstappen")),
       Trip_travel_time_planned,
       SetAttr("travel_time_actual", Item("ActueleReisTijd")),
       SetAttr("is_optimal", ItemEq("Optimaal", Str("true"))),
       Trip_load("departure_time_planned", "GeplandeVertrekTijd"),
       Trip_load("departure_time_actual", "ActueleVertrekTijd"),
       Trip_load("arrival_time_planned", "GeplandeAankomstTijd"),
       Trip_load("arrival_time_actual", "ActueleAankomstTijd"),
       \* lines 236-244: trip_parts
       Local(Item("ReisDeel")),
       SetAttr("trip_parts", Const(List(<<>>))),
       SetAttr("trip_parts", Loop("TripSubpart", "ReisDeel")),
       Trip_trip_remarks >>

\* the statements of cls.__init__
InitOf(cls) ==
    CASE cls = "Station" -> Station_init
      [] cls = "Departure" -> Departure_init
      [] cls = "TripRemark" -> TripRemark_init
      [] cls = "TripStop" -> TripStop_init
      [] cls = "TripSubpart" -> TripSubpart_init
      [] cls = "Trip" -> Trip_init

\* cls(d): the object, or the exception its __init__ raises
New(cls, d) == Construct(cls, Exec(InitOf(cls), Frame0, d))

\* the property Trip.delay
Trip_delay(obj) ==
    LET actual == obj.attrs["departure_time_actual"]
        planned == obj.attrs["departure_time_planned"]
        later == GreaterThan(actual, planned)
    IN  IF ~Returned(later) THEN later
        ELSE IF later.val THEN Return(Minus(actual, planned))
        ELSE Return(None)

\* Trip.__getstate__: the statements that follow the copy of self.__dict__
Trip_getstate ==
    << SetAttr("departure_time_actual", Isoformat("departure_time_actual")),
       SetAttr("arrival_time_actual", Isoformat("arrival_time_actual")),
       SetAttr("departure_time_planned", Isoformat("departure_time_planned")),
       SetAttr("arrival_time_planned", Isoformat("arrival_time_planned")),
       SetAttr("trip_parts", ToJsonEach("trip_parts")),
       SetAttr("trip_remarks", ToJsonEach("trip_remarks")) >>

Trip_to_json(obj) ==
    CHOOSE r \in {IF state.exc # "none" THEN Raise(state.exc) ELSE json_dumps(state.attrs) :
                  state \in {Exec(Trip_getstate, [exc |-> "none", attrs |-> obj.attrs], None)}}
        : TRUE

(***************************************************************************)
(* Departures: construction, then the delay accessor.                      *)
(***************************************************************************)
VertrekSpoor == Dict([k \in {"@wijziging", "#text"} |->
                        IF k = "@wijziging" THEN Str("false") ELSE Str("5")])

DepartureDicts ==
    {FromPairs(<<
        <<"RitNummer", rit>>, <<"VertrekTijd", Str("2024-03-01T10:15:00+0100")>>,
        <<"VertrekVertraging", vv>>, <<"VertrekVertragingTekst", vvt>>,
        <<"VertrekSpoor", spoor>>, <<"EindBestemming", Str("Utrecht Centraal")>>,
        <<"RouteTekst", route>>, <<"TreinSoort", soort>>, <<"Vervoerder", verv>>,
        <<"ReisTip", tip>>, <<"Opmerkingen", opm>> >>) :
      rit \in {Absent, Str("2187")},
      vv \in {Absent, Str("PT5M"), Str("PT10M")},
      vvt \in {Absent, Str("+5 min")},
      spoor \in {VertrekSpoor, Str("5")},
      route \in {Absent, Str("Amersfoort, Zwolle")},
      soort \in {Absent, Str("Intercity"), Str("Sprinter")},
      verv \in {Absent, Str("NS")},
      tip \in {Absent, Str("Stopt niet in Maarssen")},
      opm \in {Absent, Dict([k \in {"Opmerking"} |-> Str("Rijdt vandaag niet")])}}

DepartureInit ==
    /\ pc = "start"
    /\ departure_dict \in DepartureDicts
    /\ value = None /\ dt_format = None /\ trip_dict = None /\ stat_dict = None
    /\ xml = None /\ via = "none" /\ self = None
    /\ result = NoResult

NewDeparture ==
    /\ pc = "start"
    /\ pc' = "Departure.__init__"
    /\ result' = New("Departure", departure_dict)
    /\ self' = IF Returned(result') THEN result'.val ELSE None
    /\ UNCHANGED <<value, dt_format, departure_dict, trip_dict, stat_dict, xml, via>>

GetDepartureDelay ==
    /\ pc = "Departure.__init__"
    /\ self # None
    /\ pc' = "Departure.delay"
    /\ result' = Departure_delay(self)
    /\ UNCHANGED <<value, dt_format, departure_dict, trip_dict, stat_dict, xml, via, self>>

DepartureNext == NewDeparture \/ GetDepartureDelay

DepartureSpec == DepartureInit /\ [][DepartureNext]_vars

\* C1: a Departure built from a fragment without VertrekVertraging has
\* has_delay false and a delay of None; one built from a fragment with
\* VertrekVertraging has has_delay true and a delay equal to that value,
\* whatever other optional fields the fragment has.
C1_DelayFollowsVertrekVertraging ==
    pc = "Departure.delay" =>
        IF Has(departure_dict, "VertrekVertraging")
        THEN /\ self.attrs["has_delay"] = Bool(TRUE)
             /\ result = Return(departure_dict.d["VertrekVertraging"])
        ELSE /\ self.attrs["has_delay"] = Bool(FALSE)
             /\ result = Return(None)

\* C9: every field of a Departure is read from its key of the fragment:
\* train_type is the TreinSoort value and carrier the Vervoerder value,
\* journey_tip the ReisTip value or None, remarks the Opmerkingen value or
\* the empty list, and route_text is None without RouteTekst.
C9_FieldsReadFromFragment ==
    (pc = "Departure.__init__" /\ self # None) =>
        /\ Has(departure_dict, "TreinSoort")
              => self.attrs["train_type"] = departure_dict.d["TreinSoort"]
        /\ Has(departure_dict, "Vervoerder")
              => self.attrs["carrier"] = departure_dict.d["Vervoerder"]
        /\ self.attrs["journey_tip"] =
              IF Has(departure_dict, "ReisTip") THEN departure_dict.d["ReisTip"] ELSE None
        /\ self.attrs["remarks"] =
              IF Has(departure_dict, "Opmerkingen") THEN departure_dict.d["Opmerkingen"]
              ELSE List(<<>>)
        /\ ~Has(departure_dict, "RouteTekst") => self.attrs["route_text"] = None

(***************************************************************************)
(* Stations: construction.                                                 *)
(***************************************************************************)
Namen(ks) == Dict([k \in ks |->
                CASE k = "Kort" -> Str("Utrecht C.")
                  [] k = "Middel" -> Str("Utrecht C.")
                  [] k = "Lang" -> Str("Utrecht Centraal")])

SynonymNames == {Str("Utrecht CS"), Str("Utreg")}

\* the shapes xmltodict gives a Synoniemen element: None for an empty
\* element, a str for text, a dict of its children, a child that occurs
\* twice or more being a list
SynoniemenShapes ==
    {Absent, None, Str("Utrecht CS"),
     Dict([k \in {"Naam"} |-> Str("Utrecht CS")]),
     Dict([k \in {"Synoniem"} |-> None])}
    \cup {Dict([k \in {"Synoniem"} |-> n]) : n \in SynonymNames}
    \cup {Dict([k \in {"Synoniem"} |-> List(l)]) :
            l \in UNION {[1..n -> SynonymNames] : n \in 2..MaxItems}}

StationDicts ==
    {FromPairs(<<
        <<"Code", code>>, <<"UICCode", Str("8400621")>>, <<"Type", type>>,
        <<"Namen", namen>>, <<"Land", land>>, <<"Lat", Str("52.0888900756836")>>,
        <<"Lon", Str("5.11027765274048")>>, <<"Synoniemen", syn>> >>) :
      code \in {Absent, Str("UT")},
      type \in {Str("knooppuntIntercitystation"), Str("stoptreinstation")},
      namen \in {Absent, Namen({"Kort", "Middel", "Lang"}), Namen({"Kort", "Middel"})},
      land \in {Absent, Str("NL")},
      syn \in SynoniemenShapes}

StationInit ==
    /\ pc = "start"
    /\ stat_dict \in StationDicts
    /\ value = None /\ dt_format = None /\ trip_dict = None /\ departure_dict = None
    /\ xml = None /\ via = "none" /\ self = None
    /\ result = NoResult

NewStation ==
    /\ pc = "start"
    /\ pc' = "Station.__init__"
    /\ result' = New("Station", stat_dict)
    /\ self' = IF Returned(result') THEN result'.val ELSE None
    /\ UNCHANGED <<value, dt_format, departure_dict, trip_dict, stat_dict, xml, via>>

StationNext == NewStation

StationSpec == StationInit /\ [][StationNext]_vars

\* the fragment has every required field of a station
StationRequiredPresent(d) ==
    /\ \A k \in {"Code", "UICCode", "Type", "Namen", "Land", "Lat", "Lon"} : Has(d, k)
    /\ \A k \in {"Kort", "Middel", "Lang"} : Has(d.d["Namen"], k)

\* the synonyms the fragment lists: none without Synoniemen or with an empty
\* or malformed one, the one name of a single Synoniem, the names of a list
ListedSynonyms(d) ==
    IF ~Has(d, "Synoniemen") \/ ~Has(d.d["Synoniemen"], "Synoniem") THEN List(<<>>)
    ELSE LET syn == d.d["Synoniemen"].d["Synoniem"]
         IN  CASE syn.kind = "str" -> List(<<syn>>)
               [] syn.kind = "list" -> syn
               [] OTHER -> List(<<>>)

\* C6: constructing a Station from a fragment with all required fields
\* succeeds, and its synonyms are the names the fragment lists, in order:
\* none when Synoniemen is absent, empty or malformed.
C6_SynonymsDefaultToEmpty ==
    (pc = "Station.__init__" /\ StationRequiredPresent(stat_dict)) =>
        /\ Returned(result)
        /\ self.attrs["synonyms"] = ListedSynonyms(stat_dict)

(***************************************************************************)
(* The trip fragments the model draws from.                                *)
(***************************************************************************)
\* 2024-03-01T10:15:00+0100
Time1 == Text(Base1 \o <<"+", "0", "1", "0", "0">>)
\* 2024-03-01T10:15:00+0000, an hour after Time1
Time2 == Text(Base1 \o <<"+", "0", "0", "0", "0">>)
\* 2024-03-01T10:15:00-0030, ninety minutes after Time1
Time3 == Text(Base1 \o <<"-", "0", "0", "3", "0">>)
\* 2015-12-31T23:59:59+0100, before the others
Time0 == Text(Base2 \o <<"+", "0", "1", "0", "0">>)
\* no such day
TimeBad == Text(BadDay \o <<"+", "0", "1", "0", "0">>)

ReisDeel(status) ==
    Dict([k \in {"@reisSoort", "Vervoerder", "VervoerType", "RitNummer", "Status"} |->
            CASE k = "@reisSoort" -> Str("TRAIN")
              [] k = "Vervoerder" -> Str("NS")
              [] k = "VervoerType" -> Str("Intercity")
              [] k = "RitNummer" -> Str("2187")
              [] k = "Status" -> Str(status)])
ReisDelen == {ReisDeel("VOLGENS-PLAN"), ReisDeel("GEANNULEERD")}

Melding(ks) ==
    Dict([k \in ks |->
            CASE k = "Id" -> Str("1")
              [] k = "Ernstig" -> Str("true")
              [] k = "Text" -> Str("Dit reisadvies vervalt")])
WellFormedMelding == Melding({"Id", "Ernstig", "Text"})

\* a field that occurs once is a dict, one that occurs n >= 2 times a list
Shapes(elements) ==
    elements \cup {List(l) : l \in UNION {[1..n -> elements] : n \in 2..MaxItems}}

TripDicts ==
    {FromPairs(<<
        <<"Status", Str(status)>>, <<"AantalOverstappen", Str("1")>>,
        <<"GeplandeReisTijd", planned>>, <<"ActueleReisTijd", actual>>,
        <<"Optimaal", Str("true")>>,
        <<"GeplandeVertrekTijd", gvt>>, <<"ActueleVertrekTijd", avt>>,
        <<"GeplandeAankomstTijd", gat>>, <<"ActueleAankomstTijd", aat>>,
        <<"ReisDeel", deel>>, <<"Melding", melding>> >>) :
      status \in {"VOLGENS-PLAN", "GEANNULEERD"},
      planned \in {Absent, Str("0:35")},
      actual \in {Absent, Str("0:40")},
      gvt \in {Absent, Time1, TimeBad},
      avt \in {Absent, Time0, Time1, Time2, Time3},
      gat \in {Absent, Time2},
      aat \in {Absent, Time3},
      deel \in {Absent} \cup Shapes(ReisDelen),
      melding \in {Absent, Melding({"Ernstig", "Text"})} \cup Shapes({WellFormedMelding})}

TripInit ==
    /\ pc = "start"
    /\ trip_dict \in TripDicts
    /\ value = None /\ dt_format = None /\ stat_dict = None /\ departure_dict = None
    /\ xml = None /\ via = "none" /\ self = None
    /\ result = NoResult

NewTrip ==
    /\ pc = "start"
    /\ pc' = "Trip.__init__"
    /\ result' = New("Trip", trip_dict)
    /\ self' = IF Returned(result') THEN result'.val ELSE None
    /\ UNCHANGED <<value, dt_format, departure_dict, trip_dict, stat_dict, xml, via>>

GetTripDelay ==
    /\ pc = "Trip.__init__"
    /\ self # None
    /\ pc' = "Trip.delay"
    /\ result' = Trip_delay(self)
    /\ UNCHANGED <<value, dt_format, departure_dict, trip_dict, stat_dict, xml, via, self>>

TripToJson ==
    /\ pc = "Trip.__init__"
    /\ self # None
    /\ pc' = "Trip.to_json"
    /\ result' = Trip_to_json(self)
    /\ UNCHANGED <<value, dt_format, departure_dict, trip_dict, stat_dict, xml, via, self>>

TripNext == NewTrip \/ GetTripDelay \/ TripToJson

TripSpec == TripInit /\ [][TripNext]_vars

\* C3: a Trip built from a fragment whose Status is the cancellation code
\* has going false and travel_time_planned None.
C3_CancelledStatusNotGoing ==
    (pc = "Trip.__init__" /\ self # None /\ trip_dict.d["Status"] = Str("GEANNULEERD")) =>
        /\ self.attrs["going"] = Bool(FALSE)
        /\ self.attrs["travel_time_planned"] = None

\* C4: Trip.delay never fails; it returns actual minus planned departure
\* when both are present and actual is strictly later, and None otherwise.
C4_DelayNeverFails ==
    pc = "Trip.delay" =>
        LET actual == self.attrs["departure_time_actual"]
            planned == self.attrs["departure_time_planned"]
        IN  /\ Returned(result)
            /\ IF actual # None /\ planned # None /\ Later(Instant(actual), Instant(planned))
               THEN result.val = Minus(actual, planned)
               ELSE result.val = None

\* the fragment has the fields of a Trip other than ReisDeel and Melding,
\* and each ReisDeel and Melding it has is a mapping with all its fields
TripOtherwiseWellFormed(d) ==
    /\ \A k \in {"Status", "AantalOverstappen", "ActueleReisTijd", "Optimaal"} : Has(d, k)
    /\ Has(d, "ReisDeel") => d.d["ReisDeel"] \in Shapes(ReisDelen)
    /\ Has(d, "Melding") => d.d["Melding"] \in Shapes({WellFormedMelding})

\* the number of records a field yields: one for a single mapping, the
\* length of a list, none for an absent field
ExpectedLen(d, k) ==
    IF ~Has(d, k) THEN 0
    ELSE IF d.d[k].kind = "list" THEN Len(d.d[k].items) ELSE 1
ElementAt(d, k, i) == IF d.d[k].kind = "list" THEN d.d[k].items[i] ELSE d.d[k]

\* C5: for ReisDeel and Melding alike, the constructor does not fail and
\* yields one record for a single mapping, a record per item of a list in the
\* list's order, and no record for an absent field.
C5_BothFieldsNormalized ==
    (pc = "Trip.__init__" /\ TripOtherwiseWellFormed(trip_dict)) =>
        /\ Returned(result)
        /\ Len(self.attrs["trip_parts"].items) = ExpectedLen(trip_dict, "ReisDeel")
        /\ Len(self.attrs["trip_remarks"].items) = ExpectedLen(trip_dict, "Melding")
        /\ \A i \in 1..ExpectedLen(trip_dict, "ReisDeel") :
              self.attrs["trip_parts"].items[i].attrs["status"]
                  = ElementAt(trip_dict, "ReisDeel", i).d["Status"]
        /\ \A i \in 1..ExpectedLen(trip_dict, "Melding") :
              self.attrs["trip_remarks"].items[i].attrs["id"]
                  = ElementAt(trip_dict, "Melding", i).d["Id"]

\* C10: to_json of every Trip the constructor produces succeeds and returns
\* a str, whichever of the four timestamps are absent; the timestamps that
\* are present are emitted by isoformat and each child as its own JSON str,
\* in order.
C10_ToJsonSucceeds ==
    pc = "Trip.to_json" =>
        /\ Returned(result)
        /\ result.val.kind = "str"
        /\ \A a \in {"departure_time_planned", "departure_time_actual",
                     "arrival_time_planned", "arrival_time_actual"} :
              self.attrs[a] # None => Return(result.val.json[a]) = isoformat(self.attrs[a])
        /\ \A a \in {"trip_parts", "trip_remarks"} :
              /\ Len(result.val.json[a].items) = Len(self.attrs[a].items)
              /\ \A i \in 1..Len(self.attrs[a].items) :
                    Return(result.val.json[a].items[i])
                        = BaseObject_to_json(self.attrs[a].items[i])

(***************************************************************************)
(* xmltodict.parse and the NSAPI.parse_* entry points.                     *)
(***************************************************************************)
\* A document is malformed, or a root element with child elements, each a
\* tag and its own decoding.
Malformed == [kind |-> "xml", wellformed |-> FALSE]
Document(root, children) ==
    [kind |-> "xml", wellformed |-> TRUE, root |-> root, children |-> children]
Element(tag, content) == [tag |-> tag, content |-> content]

RECURSIVE ContentsOf(_, _)
ContentsOf(children, tag) ==
    IF children = <<>> THEN <<>>
    ELSE (IF children[1].tag = tag THEN <<children[1].content>> ELSE <<>>)
         \o ContentsOf(Tail(children), tag)

\* xmltodict.parse: {root: content}, the content of an element without
\* children being None, and otherwise a dict in which a tag that occurs
\* once maps to that child and a tag that occurs repeatedly to the list of
\* its occurrences; malformed XML raises expat's error
xmltodict_parse(doc) ==
    IF ~doc.wellformed THEN Raise("ExpatError")
    ELSE LET tags == {doc.children[i].tag : i \in 1..Len(doc.children)}
             content ==
                 IF doc.children = <<>> THEN None
                 ELSE Dict([t \in tags |->
                        LET cs == ContentsOf(doc.children, t)
                        IN  IF Len(cs) = 1 THEN cs[1] ELSE List(cs)])
         IN  Return(Dict([r \in {doc.root} |-> content]))

\* what the loop body does with the object it has appended: the prints,
\* which evaluate to_json() and, for a Departure and a Trip, delay
AfterAppend(cls, obj) ==
    CASE cls = "Departure" ->
            LET j == BaseObject_to_json(obj)
            IN  IF ~Returned(j) THEN j ELSE Departure_delay(obj)
      [] cls = "Trip" ->
            LET j == Trip_to_json(obj)
            IN  IF ~Returned(j) THEN j ELSE Trip_delay(obj)
      [] cls = "Station" -> BaseObject_to_json(obj)

\* for x in items: new = cls(x); append; prints
RECURSIVE ParseLoop(_, _)
ParseLoop(cls, items) ==
    IF Len(items) = 0 THEN Return(<<>>)
    ELSE CHOOSE r \in
           {IF ~Returned(new) THEN new
            ELSE CHOOSE q \in {IF ~Returned(printed) THEN printed
                               ELSE IF ~Returned(rest) THEN rest
                               ELSE Return(<<new.val>> \o rest.val) :
                               printed \in {AfterAppend(cls, new.val)},
                               rest \in {ParseLoop(cls, Tail(items))}} : TRUE :
            new \in {New(cls, items[1])}} : TRUE

\* the statements the three functions share: parse, then the loop over
\* obj[root][tag]; the list of the objects appended, or the exception
ParseBody(cls, root, tag, doc) ==
    CHOOSE r \in
      {LET found == IF Returned(obj) THEN GetItem2(obj.val, root, tag) ELSE obj
           items == IF Returned(found) THEN Iterate(found.val) ELSE found
       IN  IF Returned(items) THEN ParseLoop(cls, items.val) ELSE items :
       obj \in {xmltodict_parse(doc)}} : TRUE

\* the body of parse_departures: it returns the list
parse_departures_body(doc) ==
    LET departures == ParseBody("Departure", "ActueleVertrekTijden", "VertrekkendeTrein", doc)
    IN  IF Returned(departures) THEN Return(List(departures.val)) ELSE departures

\* the body of parse_trips: no return statement
parse_trips_body(doc) ==
    LET trips == ParseBody("Trip", "ReisMogelijkheden", "ReisMogelijkheid", doc)
    IN  IF Returned(trips) THEN Return(None) ELSE trips

\* the body of parse_stations: no return statement
parse_stations_body(doc) ==
    LET stations == ParseBody("Station", "Stations", "Station", doc)
    IN  IF Returned(stations) THEN Return(None) ELSE stations

\* The parameters each def declares, and whether it is a classmethod:
\* parse_departures(xml) and parse_trips(xml) are classmethods of one
\* parameter, parse_stations(self, xml) is a plain method.
Params(fn) == IF fn = "parse_stations" THEN 2 ELSE 1
IsClassmethod(fn) == fn \in {"parse_departures", "parse_trips"}

\* How a caller reaches an entry point: on an instance (api.f(text)), on the
\* class (NSAPI.f(text)), or as the plain function underneath, given as many
\* arguments as it has parameters
Vias == {"instance", "class", "function"}

\* the number of arguments the function receives when the caller passes the
\* document alone: a classmethod is handed the class first and a method
\* called on an instance the instance; 0 stands for the unbound method of
\* Python 2 refusing a first argument that is no NSAPI instance
ArgsReceived(fn, how) ==
    CASE how = "function" -> Params(fn)
      [] IsClassmethod(fn) -> 2
      [] how = "instance" -> 2
      [] OTHER -> 0

Call(fn, how, doc) ==
    IF ArgsReceived(fn, how) # Params(fn) THEN Raise("TypeError")
    ELSE CASE fn = "parse_departures" -> parse_departures_body(doc)
           [] fn = "parse_trips" -> parse_trips_body(doc)
           [] fn = "parse_stations" -> parse_stations_body(doc)

(***************************************************************************)
(* The documents the model draws from.                                     *)
(***************************************************************************)
DepartureWithDelay ==
    FromPairs(<< <<"RitNummer", Str("2187")>>,
                 <<"VertrekTijd", Str("2024-03-01T10:15:00+0100")>>,
                 <<"VertrekVertraging", Str("PT5M")>>,
                 <<"VertrekVertragingTekst", Str("+5 min")>>,
                 <<"VertrekSpoor", VertrekSpoor>>,
                 <<"EindBestemming", Str("Utrecht Centraal")>>,
                 <<"TreinSoort", Str("Intercity")>>, <<"Vervoerder", Str("NS")>> >>)
DepartureWithoutDelay ==
    FromPairs(<< <<"RitNummer", Str("5731")>>,
                 <<"VertrekTijd", Str("2024-03-01T10:21:00+0100")>>,
                 <<"VertrekSpoor", VertrekSpoor>>,
                 <<"EindBestemming", Str("Amersfoort")>>,
                 <<"TreinSoort", Str("Sprinter")>>, <<"Vervoerder", Str("NS")>> >>)

TripComplete ==
    FromPairs(<< <<"Status", Str("VOLGENS-PLAN")>>, <<"AantalOverstappen", Str("1")>>,
                 <<"GeplandeReisTijd", Str("0:35")>>, <<"ActueleReisTijd", Str("0:40")>>,
                 <<"Optimaal", Str("true")>>,
                 <<"GeplandeVertrekTijd", Time1>>, <<"ActueleVertrekTijd", Time2>>,
                 <<"GeplandeAankomstTijd", Time2>>, <<"ActueleAankomstTijd", Time3>>,
                 <<"ReisDeel", ReisDeel("VOLGENS-PLAN")>> >>)
TripOnTime ==
    FromPairs(<< <<"Status", Str("VOLGENS-PLAN")>>, <<"AantalOverstappen", Str("0")>>,
                 <<"GeplandeReisTijd", Str("0:35")>>, <<"ActueleReisTijd", Str("0:35")>>,
                 <<"Optimaal", Str("false")>>,
                 <<"GeplandeVertrekTijd", Time1>>, <<"ActueleVertrekTijd", Time1>>,
                 <<"GeplandeAankomstTijd", Time2>>, <<"ActueleAankomstTijd", Time2>>,
                 <<"ReisDeel", ReisDeel("VOLGENS-PLAN")>>,
                 <<"Melding", WellFormedMelding>> >>)

StationWithSynonym ==
    FromPairs(<< <<"Code", Str("UT")>>, <<"UICCode", Str("8400621")>>,
                 <<"Type", Str("knooppuntIntercitystation")>>,
                 <<"Namen", Namen({"Kort", "Middel", "Lang"})>>, <<"Land", Str("NL")>>,
                 <<"Lat", Str("52.0888900756836")>>, <<"Lon", Str("5.11027765274048")>>,
                 <<"Synoniemen", Dict([k \in {"Synoniem"} |-> Str("Utrecht CS")])>> >>)
StationWithSynonyms ==
    FromPairs(<< <<"Code", Str("HT")>>, <<"UICCode", Str("8400319")>>,
                 <<"Type", Str("knooppuntIntercitystation")>>,
                 <<"Namen", Namen({"Kort", "Middel", "Lang"})>>, <<"Land", Str("NL")>>,
                 <<"Lat", Str("51.69048")>>, <<"Lon", Str("5.29362")>>,
                 <<"Synoniemen",
                   Dict([k \in {"Synoniem"} |-> List(<<Str("Den Bosch"), Str("Hertogenbosch")>>)])>> >>)

\* the root, the tag of its record elements and the record class of each
\* entry point
RootOf(fn) ==
    CASE fn = "parse_departures" -> "ActueleVertrekTijden"
      [] fn = "parse_trips" -> "ReisMogelijkheden"
      [] fn = "parse_stations" -> "Stations"
TagOf(fn) ==
    CASE fn = "parse_departures" -> "VertrekkendeTrein"
      [] fn = "parse_trips" -> "ReisMogelijkheid"
      [] fn = "parse_stations" -> "Station"
ClassOf(fn) ==
    CASE fn = "parse_departures" -> "Departure"
      [] fn = "parse_trips" -> "Trip"
      [] fn = "parse_stations" -> "Station"
RecordsOf(fn) ==
    CASE fn = "parse_departures" -> {DepartureWithDelay, DepartureWithoutDelay}
      [] fn = "parse_trips" -> {TripComplete, TripOnTime}
      [] fn = "parse_stations" -> {StationWithSynonym, StationWithSynonyms}
EntryPoints == {"parse_departures", "parse_trips", "parse_stations"}

\* the answer of the API to a request it refuses
ErrorPayload == Document("error", <<Element("message", Str("Missing parameter"))>>)

\* the documents with the root of fn and n of its records
DocumentsOf(fn, n) ==
    {Document(RootOf(fn), [i \in 1..n |-> Element(TagOf(fn), records[i])]) :
        records \in [1..n -> RecordsOf(fn)]}

Documents ==
    {Malformed, ErrorPayload}
    \cup UNION {DocumentsOf(fn, n) : fn \in EntryPoints, n \in 0..MaxRecords}

ParseInit ==
    /\ pc = "start"
    /\ xml \in Documents
    /\ via \in Vias
    /\ value = None /\ dt_format = None /\ stat_dict = None /\ departure_dict = None
    /\ trip_dict = None /\ self = None
    /\ result = NoResult

CallEntryPoint(fn) ==
    /\ pc = "start"
    /\ pc' = fn
    /\ result' = Call(fn, via, xml)
    /\ UNCHANGED <<value, dt_format, departure_dict, trip_dict, stat_dict, xml, via, self>>

ParseDepartures == CallEntryPoint("parse_departures")
ParseTrips == CallEntryPoint("parse_trips")
ParseStations == CallEntryPoint("parse_stations")

ParseNext == ParseDepartures \/ ParseTrips \/ ParseStations

ParseSpec == ParseInit /\ [][ParseNext]_vars

\* the record elements under the root path fn expects
RecordElements(fn, doc) == ContentsOf(doc.children, TagOf(fn))

\* C2: each entry point, given a well-formed document whose expected root
\* holds n >= 1 record elements, returns a list of exactly n records, the
\* i-th constructed from the i-th element; for parse_departures the i-th
\* record has has_delay true exactly when the i-th element has
\* VertrekVertraging.
C2_EntryPointsReturnRecordsInOrder ==
    (/\ pc \in EntryPoints
     /\ xml.wellformed
     /\ xml.root = RootOf(pc)
     /\ Len(RecordElements(pc, xml)) >= 1)
    => /\ Returned(result)
       /\ result.val.kind = "list"
       /\ Len(result.val.items) = Len(RecordElements(pc, xml))
       /\ \A i \in 1..Len(RecordElements(pc, xml)) :
             /\ Return(result.val.items[i]) = New(ClassOf(pc), RecordElements(pc, xml)[i])
             /\ pc = "parse_departures" =>
                   result.val.items[i].attrs["has_delay"]
                       = Bool(Has(RecordElements(pc, xml)[i], "VertrekVertraging"))

\* C8: parse_trips on a well-formed document whose root is not
\* ReisMogelijkheden ends in the UnexpectedSchema error, an outcome of its
\* own, and returns nothing.
C8_MissingRootIsUnexpectedSchema ==
    (pc = "parse_trips" /\ xml.wellformed /\ xml.root # "ReisMogelijkheden")
    => result = Raise("UnexpectedSchema")

====
